---- MODULE Spec2Model ----
(***************************************************************************)
(* Model of packages/react-router-dev/vite/define-route.ts: the three      *)
(* entry points transform, parseFields and assertNotImported, the schema   *)
(* matcher (analyzeRouteExport / analyzeRoute), the misuse guard           *)
(* (assertDefineRouteOnlyAfterExportDefault) and the binding test          *)
(* (isDefineRoute / isCanonicallyImportedAs).                              *)
(*                                                                         *)
(* A source text is a pair [tree, fmt]: the syntax tree the parser would   *)
(* build and the text's formatting.  A tree is a record                    *)
(*   imports  : sequence of import specifiers, one per import declaration, *)
(*   decls    : the names of the top-level function declarations,          *)
(*   declRefs : for each declaration, the bindings its body refers to,     *)
(*   uses     : identifier occurrences in other statements,                *)
(*   exp      : the export-default declaration (kind "none" if absent).    *)
(***************************************************************************)
EXTENDS Integers, Sequences, FiniteSets, TLC

VARIABLES code, req, ssr, pc, status, ast, refs, marked, fields, out, err,
          steps, pass, first

vars == <<code, req, ssr, pc, status, ast, refs, marked, fields, out, err,
          steps, pass, first>>

(***************************************************************************)
(* Bounds of the input modules.                                            *)
(***************************************************************************)
MaxProps == 2
MaxUses == 1
MaxImports == 2

SeqsUpTo(S, n) == UNION {[1..k -> S] : k \in 0..n}

Range(s) == {s[i] : i \in 1..Len(s)}

(***************************************************************************)
(* Syntax-tree vocabulary.                                                 *)
(***************************************************************************)
NoProps == <<>>
NoArgs == <<>>
NoUses == <<>>
NoImports == <<>>

DeclNames == {"a", "b", "defineRoute"}

NoDeclRefs == [d \in DeclNames |-> {}]

NoExport == [kind |-> "none", name |-> "", args |-> NoArgs, props |-> NoProps]

ImportSpec(kind, importedIsIdent, imported, local, source) ==
  [kind |-> kind, importedIsIdent |-> importedIsIdent, imported |-> imported,
   local |-> local, source |-> source]

Prop(type, computed, keyIsIdent, key, value, r) ==
  [type |-> type, computed |-> computed, keyIsIdent |-> keyIsIdent,
   key |-> key, value |-> value, refs |-> r]

Occ(name, parent, grand, key, shadowed) ==
  [name |-> name, parent |-> parent, grand |-> grand, key |-> key,
   shadowed |-> shadowed]

Tree(imports, decls, declRefs, uses, exp) ==
  [imports |-> imports, decls |-> decls, declRefs |-> declRefs,
   uses |-> uses, exp |-> exp]

EmptyTree == Tree(NoImports, {}, NoDeclRefs, NoUses, NoExport)

NoCode == [tree |-> EmptyTree, fmt |-> "none"]

NoOut == [code |-> NoCode, map |-> FALSE]

(***************************************************************************)
(* Identifier nodes of a tree, as the Identifier visitor meets them: each  *)
(* with its name, the type of its parent and grandparent node, the key it  *)
(* hangs under, and whether an inner scope rebinds its name.               *)
(***************************************************************************)
ImportIdentifiers(tree) ==
  UNION {
    {Occ(tree.imports[i].local, tree.imports[i].kind, "ImportDeclaration",
         "local", FALSE)}
    \cup
    (IF tree.imports[i].kind = "ImportSpecifier" /\ tree.imports[i].importedIsIdent
       THEN {Occ(tree.imports[i].imported, "ImportSpecifier",
                 "ImportDeclaration", "imported", FALSE)}
       ELSE {})
    : i \in 1..Len(tree.imports)}

ExportIdentifiers(tree) ==
  LET e == tree.exp IN
  (IF e.kind = "CallExpression" /\ e.name # ""
     THEN {Occ(e.name, "CallExpression", "ExportDefaultDeclaration", "callee", FALSE)}
     ELSE {})
  \cup
  (IF e.kind = "CallExpression"
     THEN {Occ(e.args[i].name, "CallExpression", "ExportDefaultDeclaration",
               "arguments", FALSE)
           : i \in {j \in 1..Len(e.args) : e.args[j].type = "Identifier"}}
     ELSE {})
  \cup
  (IF e.kind = "Identifier"
     THEN {Occ(e.name, "ExportDefaultDeclaration", "Program", "declaration", FALSE)}
     ELSE {})
  \cup
  {Occ(e.props[i].key, e.props[i].type, "ObjectExpression", "key", FALSE)
   : i \in {j \in 1..Len(e.props) :
              e.props[j].type # "SpreadElement" /\ e.props[j].keyIsIdent}}
  \cup
  UNION {{Occ(r, "CallExpression", "ArrowFunctionExpression", "callee", FALSE)
          : r \in e.props[i].refs} : i \in 1..Len(e.props)}

DeclIdentifiers(tree) ==
  {Occ(d, "FunctionDeclaration", "Program", "id", FALSE) : d \in tree.decls}
  \cup
  UNION {{Occ(r, "CallExpression", "ReturnStatement", "callee", FALSE)
          : r \in tree.declRefs[d]} : d \in tree.decls}

Identifiers(tree) ==
  ImportIdentifiers(tree) \cup ExportIdentifiers(tree)
    \cup DeclIdentifiers(tree) \cup Range(tree.uses)

(***************************************************************************)
(* path.scope.getBinding(name): the nearest declaration of the name.       *)
(***************************************************************************)
NoBinding ==
  [found |-> FALSE, parent |-> "", node |-> "", source |-> "",
   importedIsIdent |-> FALSE, imported |-> ""]

getBinding(tree, occ) ==
  IF occ.shadowed
    THEN [found |-> TRUE, parent |-> "FunctionDeclaration", node |-> "Identifier",
          source |-> "", importedIsIdent |-> FALSE, imported |-> ""]
  ELSE IF \E i \in 1..Len(tree.imports) : tree.imports[i].local = occ.name
    THEN LET i == CHOOSE j \in 1..Len(tree.imports) : tree.imports[j].local = occ.name
             s == tree.imports[i]
         IN [found |-> TRUE, parent |-> "ImportDeclaration", node |-> s.kind,
             source |-> s.source, importedIsIdent |-> s.importedIsIdent,
             imported |-> s.imported]
  ELSE IF occ.name \in tree.decls
    THEN [found |-> TRUE, parent |-> "Program", node |-> "FunctionDeclaration",
          source |-> "", importedIsIdent |-> FALSE, imported |-> ""]
  ELSE NoBinding

isCanonicallyImportedAs(binding, sourceName, importedName) ==
  IF binding.parent # "ImportDeclaration" THEN FALSE
  ELSE IF binding.source # sourceName THEN FALSE
  ELSE IF binding.node # "ImportSpecifier" THEN FALSE
  ELSE IF ~binding.importedIsIdent THEN FALSE
  ELSE IF binding.imported # importedName THEN FALSE
  ELSE TRUE

isDefineRoute(tree, occ) ==
  LET binding == getBinding(tree, occ) IN
  IF ~binding.found THEN FALSE
  ELSE isCanonicallyImportedAs(binding, "react-router", "defineRoute")

(***************************************************************************)
(* Error messages (the source's backquotes are written as apostrophes).      *)
(***************************************************************************)
NoError == "none"
ErrDefault == "Default export of a route module must be either a literal object or a call to 'defineRoute'"
ErrArgCount == "'defineRoute' must take exactly one argument"
ErrArgObject == "'defineRoute' argument must be a literal object"
ErrSpread == "Properties cannot be spread into route"
ErrComputed == "Route cannot have computed keys"
ErrParamsArray == "Route params must be a literal array"
ErrParamString == "Route param must be a literal string"
ErrMisuse == "'defineRoute' must be a function call immediately after 'export default'"
ErrOutside == "'defineRoute' cannot be used outside of route modules"

(***************************************************************************)
(* The misuse guard: the first identifier it rejects throws.               *)
(***************************************************************************)
GuardRejects(tree, occ) ==
  IF ~isDefineRoute(tree, occ) THEN FALSE
  ELSE IF occ.parent = "ImportSpecifier" THEN FALSE
  ELSE IF occ.parent # "CallExpression" THEN TRUE
  ELSE IF occ.grand # "ExportDefaultDeclaration" THEN TRUE
  ELSE FALSE

assertDefineRouteOnlyAfterExportDefault(tree) ==
  IF \E occ \in Identifiers(tree) : GuardRejects(tree, occ)
    THEN ErrMisuse
    ELSE NoError

(***************************************************************************)
(* The schema matcher.  An analysis is the insertion-ordered list of       *)
(* [key, idx] entries of the Analysis object: idx is the position of the   *)
(* property the key maps to.                                               *)
(***************************************************************************)
NoAnalysis == <<>>

Put(analysis, key, idx) ==
  IF \E j \in 1..Len(analysis) : analysis[j].key = key
    THEN [j \in 1..Len(analysis) |->
            IF analysis[j].key = key THEN [key |-> key, idx |-> idx]
            ELSE analysis[j]]
    ELSE Append(analysis, [key |-> key, idx |-> idx])

PropertyError(property) ==
  IF property.type \notin {"ObjectProperty", "ObjectMethod"} THEN ErrSpread
  ELSE IF property.computed \/ ~property.keyIsIdent THEN ErrComputed
  ELSE IF property.key = "params" /\ property.type = "ObjectMethod" THEN ErrParamsArray
  ELSE IF property.key = "params" /\ property.value \notin {"ArrayStr", "ArrayNonStr"}
    THEN ErrParamsArray
  ELSE IF property.key = "params" /\ property.value = "ArrayNonStr" THEN ErrParamString
  ELSE NoError

RECURSIVE analyzeRouteFrom(_, _, _)
analyzeRouteFrom(props, i, analysis) ==
  IF i > Len(props) THEN [err |-> NoError, analysis |-> analysis]
  ELSE IF PropertyError(props[i]) # NoError
    THEN [err |-> PropertyError(props[i]), analysis |-> NoAnalysis]
  ELSE analyzeRouteFrom(props, i + 1, Put(analysis, props[i].key, i))

\* A matcher that looks for spread elements in all properties first, then
\* for computed keys, then for malformed params.
analyzeRouteByCondition(props) ==
  IF \E i \in 1..Len(props) : PropertyError(props[i]) = ErrSpread
    THEN [err |-> ErrSpread, analysis |-> NoAnalysis]
  ELSE IF \E i \in 1..Len(props) : PropertyError(props[i]) = ErrComputed
    THEN [err |-> ErrComputed, analysis |-> NoAnalysis]
  ELSE analyzeRouteFrom(props, 1, NoAnalysis)

analyzeRoute(props) == analyzeRouteFrom(props, 1, NoAnalysis)

analyzeRouteExport(tree) ==
  LET route == tree.exp IN
  IF route.kind = "ObjectExpression" THEN analyzeRoute(route.props)
  ELSE IF route.kind = "CallExpression"
    THEN IF ~(route.name # ""
              /\ isDefineRoute(tree, Occ(route.name, "CallExpression",
                                         "ExportDefaultDeclaration", "callee", FALSE)))
           THEN [err |-> ErrDefault, analysis |-> NoAnalysis]
         ELSE IF Len(route.args) # 1
           THEN [err |-> ErrArgCount, analysis |-> NoAnalysis]
         ELSE IF route.args[1].type # "ObjectExpression"
           THEN [err |-> ErrArgObject, analysis |-> NoAnalysis]
         ELSE analyzeRoute(route.props)
  ELSE [err |-> ErrDefault, analysis |-> NoAnalysis]

(***************************************************************************)
(* traverse(ast, {ExportDefaultDeclaration}): the visitor runs only on an  *)
(* export-default statement.                                               *)
(***************************************************************************)
\* A traversal that reports a module without export default to the matcher.
VisitExportDefaultOrMissing(tree) ==
  [visited |-> TRUE, err |-> analyzeRouteExport(tree).err,
   analysis |-> analyzeRouteExport(tree).analysis]

VisitExportDefault(tree) ==
  IF tree.exp.kind = "none"
    THEN [visited |-> FALSE, err |-> NoError, analysis |-> NoAnalysis]
    ELSE [visited |-> TRUE, err |-> analyzeRouteExport(tree).err,
          analysis |-> analyzeRouteExport(tree).analysis]

ServerOnly == {"headers", "serverLoader", "serverAction"}

MarkedForRemoval(analysis) ==
  {analysis[j].idx : j \in {k \in 1..Len(analysis) : analysis[k].key \in ServerOnly}}

ObjectKeys(analysis) == [j \in 1..Len(analysis) |-> analysis[j].key]

(***************************************************************************)
(* parse and generate.  The parser keeps the tree and drops the text's     *)
(* formatting; the generator prints a tree in its own formatting and       *)
(* returns it with a source map.                                           *)
(***************************************************************************)
parse(source) == source.tree

generate(tree) == [code |-> [tree |-> tree, fmt |-> "generated"], map |-> TRUE]

(***************************************************************************)
(* babel-dead-code-elimination.  A binding is referenced when an           *)
(* identifier other than its own declaration (and outside its own body)    *)
(* resolves to it.                                                         *)
(***************************************************************************)
Bindings(tree) ==
  {tree.imports[i].local : i \in 1..Len(tree.imports)} \cup tree.decls

Referenced(tree, b) ==
  \/ \E occ \in ExportIdentifiers(tree) :
       occ.key # "key" /\ occ.name = b /\ ~occ.shadowed
  \/ \E d \in tree.decls \ {b} : b \in tree.declRefs[d]
  \/ \E occ \in Range(tree.uses) : occ.name = b /\ ~occ.shadowed

findReferencedIdentifiers(tree) ==
  {b \in Bindings(tree) : Referenced(tree, b)}

RemoveBindings(tree, dead) ==
  [tree EXCEPT
     !.imports = SelectSeq(tree.imports, LAMBDA s : s.local \notin dead),
     !.decls = tree.decls \ dead,
     !.declRefs = [d \in DeclNames |-> IF d \in dead THEN {} ELSE tree.declRefs[d]]]

RECURSIVE deadCodeElimination(_, _)
deadCodeElimination(tree, candidates) ==
  LET dead == {b \in Bindings(tree) \cap candidates : ~Referenced(tree, b)} IN
  IF dead = {} THEN tree
  ELSE deadCodeElimination(RemoveBindings(tree, dead), candidates)

(***************************************************************************)
(* path.remove() on each marked property.                                  *)
(***************************************************************************)
RECURSIVE Without(_, _, _)
Without(props, idxs, i) ==
  IF i > Len(props) THEN <<>>
  ELSE IF i \in idxs THEN Without(props, idxs, i + 1)
  ELSE <<props[i]>> \o Without(props, idxs, i + 1)

RemoveMarked(tree, idxs) ==
  [tree EXCEPT !.exp.props = Without(tree.exp.props, idxs, 1)]

(***************************************************************************)
(* The statements of each entry point, in program order.                   *)
(***************************************************************************)
\* transform with the reference set taken after the removal.
TransformStepsRefsAfterRemoval ==
  <<"parse", "assertDefineRouteOnlyAfterExportDefault", "traverse", "remove",
    "findReferencedIdentifiers", "deadCodeElimination", "generate">>

\* transform with the removal done before the misuse guard has run.
TransformStepsRemoveBeforeGuard ==
  <<"parse", "findReferencedIdentifiers", "traverse", "remove",
    "assertDefineRouteOnlyAfterExportDefault", "deadCodeElimination", "generate">>

TransformSteps ==
  <<"parse", "findReferencedIdentifiers", "assertDefineRouteOnlyAfterExportDefault",
    "traverse", "remove", "deadCodeElimination", "generate">>

ParseFieldsSteps ==
  <<"parse", "assertDefineRouteOnlyAfterExportDefault", "traverse">>

AssertNotImportedSteps == <<"parse", "traverse">>

Pipeline(r) ==
  IF r = "transform" THEN TransformSteps
  ELSE IF r = "parseFields" THEN ParseFieldsSteps
  ELSE AssertNotImportedSteps

At(step) ==
  /\ status = "running"
  /\ ~(req = "transform" /\ ssr)
  /\ pc <= Len(Pipeline(req))
  /\ Pipeline(req)[pc] = step

Advance(step) ==
  /\ pc' = pc + 1
  /\ steps' = Append(steps, step)
  /\ status' = IF pc = Len(Pipeline(req)) THEN "returned" ELSE "running"

Throw(step, e) ==
  /\ pc' = pc
  /\ steps' = Append(steps, step)
  /\ status' = "thrown"
  /\ err' = e

\* transform that parses and prints the source for the server target too.
TransformSsrRegenerates ==
  /\ status = "running"
  /\ req = "transform"
  /\ ssr
  /\ out' = generate(parse(code))
  /\ status' = "returned"
  /\ UNCHANGED <<code, req, ssr, pc, ast, refs, marked, fields, err, steps,
                 pass, first>>

(***************************************************************************)
(* transform(code, id, {ssr: true}): the source is returned as it is.      *)
(***************************************************************************)
TransformSsr ==
  /\ status = "running"
  /\ req = "transform"
  /\ ssr
  /\ out' = [code |-> code, map |-> FALSE]
  /\ status' = "returned"
  /\ UNCHANGED <<code, req, ssr, pc, ast, refs, marked, fields, err, steps,
                 pass, first>>

Parse ==
  /\ At("parse")
  /\ ast' = parse(code)
  /\ Advance("parse")
  /\ UNCHANGED <<code, req, ssr, refs, marked, fields, out, err, pass, first>>

FindReferenced ==
  /\ At("findReferencedIdentifiers")
  /\ refs' = findReferencedIdentifiers(ast)
  /\ Advance("findReferencedIdentifiers")
  /\ UNCHANGED <<code, req, ssr, ast, marked, fields, out, err, pass, first>>

Guard ==
  /\ At("assertDefineRouteOnlyAfterExportDefault")
  /\ LET e == assertDefineRouteOnlyAfterExportDefault(ast) IN
       IF e # NoError
         THEN Throw("assertDefineRouteOnlyAfterExportDefault", e)
         ELSE Advance("assertDefineRouteOnlyAfterExportDefault") /\ err' = err
  /\ UNCHANGED <<code, req, ssr, ast, refs, marked, fields, out, pass, first>>

TraverseTransform ==
  /\ At("traverse")
  /\ req = "transform"
  /\ LET v == VisitExportDefault(ast) IN
       IF v.err # NoError
         THEN Throw("traverse", v.err) /\ marked' = marked
         ELSE /\ Advance("traverse")
              /\ err' = err
              /\ marked' = MarkedForRemoval(v.analysis)
  /\ UNCHANGED <<code, req, ssr, ast, refs, fields, out, pass, first>>

TraverseParseFields ==
  /\ At("traverse")
  /\ req = "parseFields"
  /\ LET v == VisitExportDefault(ast) IN
       IF v.err # NoError
         THEN Throw("traverse", v.err) /\ fields' = fields
         ELSE /\ Advance("traverse")
              /\ err' = err
              /\ fields' = ObjectKeys(v.analysis)
  /\ UNCHANGED <<code, req, ssr, ast, refs, marked, out, pass, first>>

TraverseAssertNotImported ==
  /\ At("traverse")
  /\ req = "assertNotImported"
  /\ IF \E occ \in Identifiers(ast) : isDefineRoute(ast, occ)
       THEN Throw("traverse", ErrOutside)
       ELSE Advance("traverse") /\ err' = err
  /\ UNCHANGED <<code, req, ssr, ast, refs, marked, fields, out, pass, first>>

Remove ==
  /\ At("remove")
  /\ ast' = RemoveMarked(ast, marked)
  /\ Advance("remove")
  /\ UNCHANGED <<code, req, ssr, refs, marked, fields, out, err, pass, first>>

DeadCode ==
  /\ At("deadCodeElimination")
  /\ ast' = deadCodeElimination(ast, refs)
  /\ Advance("deadCodeElimination")
  /\ UNCHANGED <<code, req, ssr, refs, marked, fields, out, err, pass, first>>

Generate ==
  /\ At("generate")
  /\ out' = generate(ast)
  /\ Advance("generate")
  /\ UNCHANGED <<code, req, ssr, ast, refs, marked, fields, err, pass, first>>

(***************************************************************************)
(* The caller feeds the client output of transform back into transform.    *)
(***************************************************************************)
Resubmit ==
  /\ status = "returned"
  /\ req = "transform"
  /\ ~ssr
  /\ pass = 1
  /\ code' = out.code
  /\ first' = out
  /\ pass' = 2
  /\ pc' = 1
  /\ status' = "running"
  /\ ast' = EmptyTree
  /\ refs' = {}
  /\ marked' = {}
  /\ fields' = <<>>
  /\ out' = NoOut
  /\ err' = NoError
  /\ steps' = <<>>
  /\ UNCHANGED <<req, ssr>>

(***************************************************************************)
(* The modules the entry points are called on.                             *)
(***************************************************************************)
CanonicalImport(local) ==
  ImportSpec("ImportSpecifier", TRUE, "defineRoute", local, "react-router")

HelperImport == ImportSpec("ImportSpecifier", TRUE, "h", "h", "./db")

ObjectArg == [type |-> "ObjectExpression", name |-> ""]
StringArg == [type |-> "StringLiteral", name |-> ""]
IdentifierArg(n) == [type |-> "Identifier", name |-> n]

ExportObject(props) ==
  [kind |-> "ObjectExpression", name |-> "", args |-> NoArgs, props |-> props]

ExportCall(callee, args, props) ==
  [kind |-> "CallExpression", name |-> callee, args |-> args, props |-> props]

ExportIdentifier(n) ==
  [kind |-> "Identifier", name |-> n, args |-> NoArgs, props |-> NoProps]

Source(tree, fmt) == [tree |-> tree, fmt |-> fmt]

Request(r, s, c) == [req |-> r, ssr |-> s, code |-> c]

\* Valid route modules whose properties refer to helper declarations.
StripProps ==
  {Prop("ObjectProperty", FALSE, TRUE, k, "Other", r) :
     k \in {"serverLoader", "headers", "Component"}, r \in {{}, {"a"}}}

DeclGraphs ==
  {[decls |-> {}, declRefs |-> NoDeclRefs]}
  \cup
  {[decls |-> {"a"}, declRefs |-> [NoDeclRefs EXCEPT !["a"] = ra]] :
     ra \in SUBSET {"h"}}
  \cup
  {[decls |-> {"a", "b"},
    declRefs |-> [NoDeclRefs EXCEPT !["a"] = ra, !["b"] = rb]] :
     ra \in SUBSET {"b", "h"}, rb \in SUBSET {"a", "h"}}

StripTrees ==
  {Tree(<<HelperImport>>, g.decls, g.declRefs, NoUses, NoExport) : g \in DeclGraphs}
  \cup
  {Tree(<<HelperImport>>, g.decls, g.declRefs, NoUses, ExportObject(ps)) :
     g \in DeclGraphs, ps \in SeqsUpTo(StripProps, MaxProps)}
  \cup
  {Tree(<<CanonicalImport("defineRoute"), HelperImport>>, g.decls, g.declRefs,
        NoUses, ExportCall("defineRoute", <<ObjectArg>>, ps)) :
     g \in DeclGraphs, ps \in SeqsUpTo(StripProps, MaxProps)}

StripRequests ==
  {Request("transform", FALSE, Source(t, "authored")) : t \in StripTrees}
  \cup
  {Request("transform", TRUE, Source(t, f)) :
     t \in {x \in StripTrees : x.decls = {}}, f \in {"authored", "generated"}}

\* Default exports of every shape the schema matcher tells apart.
MatchProps ==
  {Prop("SpreadElement", FALSE, FALSE, "", "Other", {})}
  \cup
  {Prop("ObjectMethod", FALSE, TRUE, k, "Other", {}) : k \in {"params", "headers"}}
  \cup
  {Prop("ObjectProperty", FALSE, TRUE, "params", v, {}) :
     v \in {"ArrayStr", "ArrayNonStr", "Other"}}
  \cup
  {Prop("ObjectProperty", ci[1], ci[2], k, "Other", {}) :
     ci \in {<<FALSE, TRUE>>, <<TRUE, TRUE>>, <<FALSE, FALSE>>},
     k \in {"params", "headers"}}

MatchExports ==
  {ExportObject(ps) : ps \in SeqsUpTo(MatchProps, MaxProps)}
  \cup
  {ExportCall(c, <<ObjectArg>>, ps) :
     c \in {"defineRoute", "foo"}, ps \in SeqsUpTo(MatchProps, MaxProps)}
  \cup
  {ExportCall("defineRoute", <<ObjectArg, StringArg>>, ps) :
     ps \in SeqsUpTo(MatchProps, MaxProps)}
  \cup
  {ExportCall(c, a, NoProps) :
     c \in {"defineRoute", "foo", ""},
     a \in {<<>>, <<StringArg>>, <<StringArg, StringArg>>}}
  \cup
  {ExportIdentifier("r"), NoExport}

MatchRequests ==
  {Request(r, FALSE,
           Source(Tree(<<CanonicalImport("defineRoute")>>, {}, NoDeclRefs, NoUses, e),
                  "authored")) :
     r \in {"parseFields", "transform"}, e \in MatchExports}

\* Modules that use the factory identifier in every kind of position.
GuardUses(local) ==
  {Occ(local, "CallExpression", "VariableDeclarator", k, s) :
     k \in {"callee", "arguments"}, s \in BOOLEAN}
  \cup
  {Occ(local, "VariableDeclarator", "VariableDeclaration", "init", s) : s \in BOOLEAN}

GuardExports(local) ==
  {ExportCall(c, a, NoProps) :
     c \in {local, "foo"},
     a \in {<<ObjectArg>>, <<IdentifierArg(local)>>, <<ObjectArg, IdentifierArg(local)>>}}
  \cup
  {ExportObject(NoProps), ExportIdentifier(local), NoExport}

GuardTrees ==
  UNION {
    {Tree(<<ImportSpec("ImportSpecifier", TRUE, "defineRoute", local, source)>>,
          {}, NoDeclRefs, us, e) :
       us \in SeqsUpTo(GuardUses(local), MaxUses), e \in GuardExports(local)}
    : local \in {"defineRoute", "dr"}, source \in {"react-router", "react-router-dom"}}

GuardRequests ==
  {Request(r, FALSE, Source(t, "authored")) :
     r \in {"parseFields", "transform"}, t \in GuardTrees}

\* Modules with every kind of import and local declaration of the name.
ImportSpecs ==
  {ImportSpec("ImportSpecifier", i, n, l, s) :
     i \in BOOLEAN, n \in {"defineRoute", "other"}, l \in {"defineRoute", "dr"},
     s \in {"react-router", "react-router-dom"}}
  \cup
  {ImportSpec(k, FALSE, "", l, s) :
     k \in {"ImportDefaultSpecifier", "ImportNamespaceSpecifier"},
     l \in {"defineRoute", "dr"}, s \in {"react-router", "react-router-dom"}}

DistinctLocals(imports, decls) ==
  /\ \A i, j \in 1..Len(imports) : imports[i].local = imports[j].local => i = j
  /\ \A i \in 1..Len(imports) : imports[i].local \notin decls

ImportTrees ==
  {t \in {Tree(is, ds, NoDeclRefs, NoUses, e) :
            is \in SeqsUpTo(ImportSpecs, MaxImports),
            ds \in {{}, {"defineRoute"}},
            e \in {NoExport, ExportCall("defineRoute", <<ObjectArg>>, NoProps)}} :
     DistinctLocals(t.imports, t.decls)}

ImportRequests ==
  {Request("assertNotImported", FALSE, Source(t, "authored")) : t \in ImportTrees}

Requests == StripRequests \cup MatchRequests \cup GuardRequests \cup ImportRequests

Init ==
  /\ \E r \in Requests :
       /\ req = r.req
       /\ ssr = r.ssr
       /\ code = r.code
  /\ pc = 1
  /\ status = "running"
  /\ ast = EmptyTree
  /\ refs = {}
  /\ marked = {}
  /\ fields = <<>>
  /\ out = NoOut
  /\ err = NoError
  /\ steps = <<>>
  /\ pass = 1
  /\ first = NoOut

Next ==
  \/ TransformSsr
  \/ Parse
  \/ FindReferenced
  \/ Guard
  \/ TraverseTransform
  \/ TraverseParseFields
  \/ TraverseAssertNotImported
  \/ Remove
  \/ DeadCode
  \/ Generate
  \/ Resubmit

Spec == Init /\ [][Next]_vars

(***************************************************************************)
(* Vocabulary of the properties.                                           *)
(***************************************************************************)
AnalysisKeys ==
  {"params", "links", "HydrateFallback", "serverLoader", "clientLoader",
   "serverAction", "clientAction", "meta", "Component", "ErrorBoundary", "handle"}

ClientTransform == req = "transform" /\ ~ssr

HasServerOnly(tree) ==
  \E i \in 1..Len(tree.exp.props) : tree.exp.props[i].key \in ServerOnly

Min(S) == CHOOSE x \in S : \A y \in S : x <= y

\* The numbered failure conditions of the schema matcher that a property violates.
PropViolations(p) ==
  {n \in {5} : p.type = "SpreadElement"}
  \cup {n \in {6} : p.type # "SpreadElement" /\ (p.computed \/ ~p.keyIsIdent)}
  \cup {n \in {7} : /\ p.type # "SpreadElement"
                    /\ p.key = "params"
                    /\ (p.type = "ObjectMethod" \/ p.value # "ArrayStr")}

\* The numbered failure conditions that a default export violates.
Violations(tree) ==
  LET e == tree.exp
      canonical ==
        \E i \in 1..Len(tree.imports) :
          /\ tree.imports[i].local = e.name
          /\ tree.imports[i].kind = "ImportSpecifier"
          /\ tree.imports[i].importedIsIdent
          /\ tree.imports[i].imported = "defineRoute"
          /\ tree.imports[i].source = "react-router"
  IN {n \in {1} : e.kind \notin {"none", "ObjectExpression", "CallExpression"}}
     \cup {n \in {2} : e.kind = "CallExpression" /\ ~canonical}
     \cup {n \in {3} : e.kind = "CallExpression" /\ Len(e.args) # 1}
     \cup {n \in {4} : /\ e.kind = "CallExpression"
                       /\ Len(e.args) >= 1
                       /\ e.args[1].type # "ObjectExpression"}
     \cup UNION {PropViolations(e.props[i]) : i \in 1..Len(e.props)}

\* The conditions an error message reports.
ConditionsOf(e) ==
  IF e = ErrDefault THEN {1, 2}
  ELSE IF e = ErrArgCount THEN {3}
  ELSE IF e = ErrArgObject THEN {4}
  ELSE IF e = ErrSpread THEN {5}
  ELSE IF e = ErrComputed THEN {6}
  ELSE IF e \in {ErrParamsArray, ErrParamString} THEN {7}
  ELSE {}

SchemaErrors ==
  {ErrDefault, ErrArgCount, ErrArgObject, ErrSpread, ErrComputed,
   ErrParamsArray, ErrParamString}

\* Identifier nodes that resolve to the canonical factory import, the import
\* specifier's own identifiers apart.
FactoryUses(tree) ==
  {occ \in Identifiers(tree) :
     /\ ~occ.shadowed
     /\ occ.parent # "ImportSpecifier"
     /\ \E i \in 1..Len(tree.imports) :
          /\ tree.imports[i].local = occ.name
          /\ tree.imports[i].kind = "ImportSpecifier"
          /\ tree.imports[i].importedIsIdent
          /\ tree.imports[i].imported = "defineRoute"
          /\ tree.imports[i].source = "react-router"}

\* What refers to the name b in a tree: properties, declarations, the export
\* head and other statements.
Referrers(tree, b) ==
  {<<"property", i>> : i \in {j \in 1..Len(tree.exp.props) : b \in tree.exp.props[j].refs}}
  \cup {<<"declaration", d>> : d \in {x \in tree.decls \ {b} : b \in tree.declRefs[x]}}
  \cup {<<"export", 0>> : x \in {o \in ExportIdentifiers(tree) :
                                   o.name = b /\ o.key \in {"callee", "arguments", "declaration"}
                                   /\ o.grand \in {"ExportDefaultDeclaration", "Program"}}}
  \cup {<<"statement", i>> : i \in {j \in 1..Len(tree.uses) :
                                      tree.uses[j].name = b /\ ~tree.uses[j].shadowed}}

(***************************************************************************)
(* C1.  After a successful client transform of a module whose export       *)
(* object has a headers, serverLoader or serverAction property, the        *)
(* output's export object has no property of these names (duplicated keys  *)
(* included).                                                              *)
(***************************************************************************)
C1_ServerOnlyFieldsStripped ==
  (ClientTransform /\ status = "returned" /\ HasServerOnly(code.tree))
    => ~HasServerOnly(out.code.tree)

(***************************************************************************)
(* C2.  transform with ssr true returns exactly its input source, and      *)
(* runs neither the parser nor any later step.                             *)
(***************************************************************************)
C2_SsrReturnsSource ==
  (req = "transform" /\ ssr /\ status = "returned")
    => /\ out.code = code
       /\ steps = <<>>
       /\ ast = EmptyTree

C2_Witness ==
  /\ req = "transform" /\ ssr /\ status = "returned"
  /\ code.fmt = "authored"
  /\ code.tree.exp.kind = "CallExpression"
  /\ HasServerOnly(code.tree)

(***************************************************************************)
(* C3.  When the misuse guard accepts a module, every identifier that      *)
(* resolves to the canonical defineRoute import (the import specifier      *)
(* apart) is the callee of the call directly under export default.         *)
(***************************************************************************)
C3_GuardAcceptsOnlyCallee ==
  ("assertDefineRouteOnlyAfterExportDefault" \in Range(steps) /\ err # ErrMisuse)
    => \A occ \in FactoryUses(parse(code)) :
         /\ occ.key = "callee"
         /\ occ.parent = "CallExpression"
         /\ occ.grand = "ExportDefaultDeclaration"

(***************************************************************************)
(* C4.  As claimed: a schema error is the one of the lowest-numbered       *)
(* condition the default export violates.                                  *)
(***************************************************************************)
C4_LowestConditionWins ==
  (status = "thrown" /\ err \in SchemaErrors)
    => Min(Violations(parse(code))) \in ConditionsOf(err)

(***************************************************************************)
(* C4, amended.  Conditions 1 to 4 are checked in their order and before   *)
(* any property; the properties are then checked one by one in source      *)
(* order, and the error is the lowest-numbered condition (5, 6, 7) of the  *)
(* first property that violates any.  A run that passes the matcher        *)
(* violates no condition.                                                  *)
(***************************************************************************)
C4_FirstViolatingProperty ==
  LET tree == parse(code)
      outer == Violations(tree) \cap 1..4
      bad == {i \in 1..Len(tree.exp.props) : PropViolations(tree.exp.props[i]) # {}}
  IN /\ (status = "thrown" /\ err \in SchemaErrors)
          => IF outer # {} THEN Min(outer) \in ConditionsOf(err)
             ELSE /\ bad # {}
                  /\ Min(PropViolations(tree.exp.props[Min(bad)])) \in ConditionsOf(err)
     /\ (status = "returned" /\ req \in {"transform", "parseFields"} /\ ~ssr)
          => Violations(tree) = {}

C4_Witness ==
  /\ status = "thrown"
  /\ err = ErrParamsArray
  /\ \E i \in 1..Len(code.tree.exp.props) : code.tree.exp.props[i].type = "SpreadElement"

(***************************************************************************)
(* C5.  After a successful client transform, a declaration that was        *)
(* referenced in the original tree, and only from removed properties or    *)
(* from declarations that were themselves eliminated, is eliminated; and   *)
(* a declaration that the retained tree still refers to is kept.           *)
(***************************************************************************)
C5_DeadDeclarationsEliminated ==
  (ClientTransform /\ status = "returned" /\ pass = 1)
    => LET orig == parse(code)
           res == out.code.tree
       IN \A b \in Bindings(orig) :
            /\ ( /\ Referrers(orig, b) # {}
                 /\ \A r \in Referrers(orig, b) :
                      \/ (r[1] = "property" /\ r[2] \in marked)
                      \/ (r[1] = "declaration" /\ r[2] \notin Bindings(res)) )
                 => b \notin Bindings(res)
            /\ Referrers(res, b) # {} => b \in Bindings(res)

C5_Witness ==
  /\ ClientTransform /\ status = "returned" /\ pass = 1
  /\ marked # {}
  /\ "a" \notin Bindings(out.code.tree)
  /\ "b" \notin Bindings(out.code.tree)
  /\ "h" \notin Bindings(out.code.tree)
  /\ Referrers(code.tree, "a") = {<<"property", 1>>}
  /\ Referrers(code.tree, "b") = {<<"declaration", "a">>}
  /\ Referrers(code.tree, "h") = {<<"declaration", "b">>}

(***************************************************************************)
(* C6.  Every name parseFields returns is one of the eleven names of the   *)
(* Analysis type.                                                          *)
(***************************************************************************)
C6_FieldsAreAnalysisKeys ==
  (req = "parseFields" /\ status = "returned")
    => \A i \in 1..Len(fields) : fields[i] \in AnalysisKeys

(***************************************************************************)
(* C7.  assertNotImported throws if and only if the module has a named     *)
(* import specifier whose imported name is defineRoute in an import from   *)
(* "react-router".                                                         *)
(***************************************************************************)
C7_ThrowsIffCanonicalImport ==
  (req = "assertNotImported" /\ status # "running")
    => (status = "thrown"
          <=> \E i \in 1..Len(code.tree.imports) :
                /\ code.tree.imports[i].kind = "ImportSpecifier"
                /\ code.tree.imports[i].imported = "defineRoute"
                /\ code.tree.imports[i].source = "react-router")

(***************************************************************************)
(* C8.  A client transform of the output of a successful client transform  *)
(* succeeds and returns that output again.                                 *)
(***************************************************************************)
C8_ClientTransformIdempotent ==
  (ClientTransform /\ pass = 2 /\ status # "running")
    => (status = "returned" /\ out = first)

(***************************************************************************)
(* C9.  A client transform runs parse, findReferencedIdentifiers, the      *)
(* misuse guard, the matcher, the removal, dead-code elimination and the   *)
(* generator in this order, each once; the reference set is that of the    *)
(* unmutated tree; and when an error is thrown the tree is still the       *)
(* parsed one and there is no output.                                      *)
(***************************************************************************)
C9_StepOrder ==
  ClientTransform
    => LET order == <<"parse", "findReferencedIdentifiers",
                      "assertDefineRouteOnlyAfterExportDefault", "traverse",
                      "remove", "deadCodeElimination", "generate">>
       IN /\ Len(steps) <= Len(order)
          /\ \A i \in 1..Len(steps) : steps[i] = order[i]
          /\ "findReferencedIdentifiers" \in Range(steps)
               => refs = findReferencedIdentifiers(parse(code))
          /\ status = "thrown" => (ast = parse(code) /\ out = NoOut)
          /\ status = "returned" => Len(steps) = Len(order)

C9_Witness ==
  /\ ClientTransform
  /\ status = "thrown"
  /\ err = ErrSpread
  /\ HasServerOnly(code.tree)
  /\ refs # {}

(***************************************************************************)
(* C10.  On a module with no export-default statement and no use of the    *)
(* canonical factory, no error is thrown: parseFields returns the empty    *)
(* list, and the client transform marks nothing and returns generated      *)
(* output.                                                                 *)
(***************************************************************************)
C10_NoDefaultExportIsNoError ==
  (code.tree.exp.kind = "none" /\ FactoryUses(code.tree) = {}
     /\ req \in {"transform", "parseFields"} /\ ~ssr)
    => /\ status # "thrown"
       /\ err = NoError
       /\ (status = "returned" /\ req = "parseFields") => fields = <<>>
       /\ (status = "returned" /\ req = "transform")
            => /\ marked = {}
               /\ out.map
               /\ out.code.fmt = "generated"
               /\ out.code.tree.exp = code.tree.exp

C10_Witness ==
  /\ code.tree.exp.kind = "none"
  /\ FactoryUses(code.tree) = {}
  /\ ClientTransform
  /\ pass = 1
  /\ status = "returned"
  /\ code.fmt = "authored"
  /\ code.tree.decls # {}

====
